---- MODULE Spec2Model ----
\* Model of plugin/maxmind/country_mmdb_out.go: the maxmindMMDB output
\* converter (label selection, per-label / aggregate compilation of prefix
\* sets into an address trie, and the files it leaves on disk).
EXTENDS Integers, Sequences, FiniteSets, TLC

\* ---------------------------------------------------------------- bounds
MaxWant == 2
MaxExclude == 1
V4Bits == 2

\* ------------------------------------------------------------- strings
\* A string is the sequence of its bytes (code points).
IsSpace(c) == c \in {9, 10, 11, 12, 13, 32}

RECURSIVE TrimLeft(_)
TrimLeft(s) == IF s # <<>> /\ IsSpace(Head(s)) THEN TrimLeft(Tail(s)) ELSE s

RECURSIVE TrimRight(_)
TrimRight(s) ==
  IF s # <<>> /\ IsSpace(s[Len(s)]) THEN TrimRight(SubSeq(s, 1, Len(s) - 1)) ELSE s

TrimSpace(s) == TrimRight(TrimLeft(s))

ToUpper(s) == [i \in 1..Len(s) |-> IF s[i] \in 97..122 THEN s[i] - 32 ELSE s[i]]

ToLower(s) == [i \in 1..Len(s) |-> IF s[i] \in 65..90 THEN s[i] + 32 ELSE s[i]]

\* strings.ToUpper(strings.TrimSpace(x))
Normalize(s) == ToUpper(TrimSpace(s))

\* Go's < on strings: bytewise lexicographic.
StrLess(a, b) ==
  \E k \in 1..(Len(a) + 1) :
    /\ \A i \in 1..(k - 1) : i <= Len(b) /\ a[i] = b[i]
    /\ \/ k = Len(a) + 1 /\ Len(b) >= k
       \/ k <= Len(a) /\ k <= Len(b) /\ a[k] < b[k]

StrLeq(a, b) == a = b \/ StrLess(a, b)

RECURSIVE InsertSorted(_, _)
InsertSorted(x, s) ==
  IF s = <<>> THEN <<x>>
  ELSE IF StrLeq(x, Head(s)) THEN <<x>> \o s
  ELSE <<Head(s)>> \o InsertSorted(x, Tail(s))

\* A sort with the comparison reversed.
RECURSIVE SlicesSortDescending(_)
SlicesSortDescending(s) ==
  IF s = <<>> THEN <<>>
  ELSE LET r == SlicesSortDescending(Tail(s))
           smaller == SelectSeq(r, LAMBDA x : StrLess(x, Head(s)))
           others == SelectSeq(r, LAMBDA x : ~StrLess(x, Head(s)))
       IN others \o <<Head(s)>> \o smaller

\* slices.Sort on a []string
RECURSIVE SlicesSort(_)
SlicesSort(s) == IF s = <<>> THEN <<>> ELSE InsertSorted(Head(s), SlicesSort(Tail(s)))

Range(s) == {s[i] : i \in 1..Len(s)}

RECURSIVE SetToSeq(_)
SetToSeq(S) ==
  IF S = {} THEN <<>>
  ELSE LET x == CHOOSE y \in S : TRUE IN <<x>> \o SetToSeq(S \ {x})

BoundedSeq(S, n) == UNION {[1..k -> S] : k \in 0..n}

\* ------------------------------------------------------------ selector
\* The labels the container yields from Loop(), in any order, are its keys.
ContainerNames(c) == DOMAIN c

filterAndSortList(want, exclude, names) ==
  LET excludeMap == {Normalize(exclude[i]) : i \in 1..Len(exclude)} \ {<<>>}
      normWant == [i \in 1..Len(want) |-> Normalize(want[i])]
      Keep(w) == w # <<>> /\ w \notin excludeMap
      wantList == SelectSeq(normWant, Keep)
  IN IF Len(wantList) > 0
       THEN SlicesSort(wantList)
       ELSE SlicesSort(SetToSeq(names \ excludeMap))

\* ---------------------------------------------------------------- trie
\* A prefix is [fam |-> 4 or 6, bits |-> its leading bits, most significant
\* first]. A tree of IP version 6 holds the IPv4 space under V4Mapped.
V6Bits == V4Bits + 1
V4Mapped == <<0>>

TreeBits(ipVersion) == IF ipVersion = 4 THEN V4Bits ELSE V6Bits

IsPrefixOf(p, q) == Len(p) <= Len(q) /\ \A i \in 1..Len(p) : p[i] = q[i]

\* The bit path of a prefix in a tree of the given IP version.
TreePath(ipVersion, prefix) ==
  IF ipVersion = 6 /\ prefix.fam = 4 THEN V4Mapped \o prefix.bits ELSE prefix.bits

\* A tree of one family cannot hold a prefix of the wider family.
Representable(ipVersion, prefix) == ~(ipVersion = 4 /\ prefix.fam = 6)

\* Insertion: walk the bits of the path; every leaf below the path is
\* replaced, a leaf above the path is split into the siblings along the path
\* (kept) and the path itself (replaced).
TreeInsert(leaves, path, rec) ==
  LET kept == {l \in leaves : ~IsPrefixOf(path, l.path) /\ ~IsPrefixOf(l.path, path)}
      above == {l \in leaves : IsPrefixOf(l.path, path) /\ l.path # path}
      Siblings(l) == {[path |-> SubSeq(path, 1, k - 1) \o <<1 - path[k]>>, rec |-> l.rec] :
                        k \in (Len(l.path) + 1)..Len(path)}
  IN kept \cup UNION {Siblings(l) : l \in above} \cup {[path |-> path, rec |-> rec]}

NoMatch == [country |-> <<>>, registered_country |-> <<>>]

\* Lookup of a full-width address: the record of the leaf on its path.
TreeLookup(leaves, addr) ==
  IF \E l \in leaves : IsPrefixOf(l.path, addr)
    THEN (CHOOSE l \in leaves : IsPrefixOf(l.path, addr)).rec
    ELSE NoMatch

Addresses(ipVersion) == [1..TreeBits(ipVersion) -> {0, 1}]

\* ------------------------------------------------------------ converter
createWriter(onlyIPType) ==
  [ipVersion |-> IF onlyIPType = "ipv4" THEN 4 ELSE 6, leaves |-> {}]

countryRecord(countryCode) ==
  [country |-> countryCode, registered_country |-> countryCode]

\* An entry of the container: has4/has6 tell whether the IPv4/IPv6 set can be
\* returned, v4/v6 are the bit strings of the prefixes of the set, in order.
GetIPv4Set(entry) ==
  [err |-> ~entry.has4,
   prefixes |-> IF entry.has4 THEN [i \in 1..Len(entry.v4) |-> [fam |-> 4, bits |-> entry.v4[i]]]
                ELSE <<>>]

GetIPv6Set(entry) ==
  [err |-> ~entry.has6,
   prefixes |-> IF entry.has6 THEN [i \in 1..Len(entry.v6) |-> [fam |-> 6, bits |-> entry.v6[i]]]
                ELSE <<>>]

GetEntry(c, name) == [found |-> name \in DOMAIN c]

\* The switch with the IPv6 set left out of the default case.
collectPrefixesNoV6Default(entry, onlyIPType) ==
  LET s4 == GetIPv4Set(entry)
      s6 == GetIPv6Set(entry)
  IN CASE onlyIPType = "ipv4" ->
            IF s4.err THEN [err |-> "v4set", prefixes |-> <<>>]
            ELSE [err |-> "none", prefixes |-> s4.prefixes]
       [] onlyIPType = "ipv6" ->
            IF s6.err THEN [err |-> "v6set", prefixes |-> <<>>]
            ELSE [err |-> "none", prefixes |-> s6.prefixes]
       [] OTHER ->
            [err |-> "none", prefixes |-> IF s4.err THEN <<>> ELSE s4.prefixes]

\* The switch with every case falling through to the default case.
collectPrefixesUnfiltered(entry, onlyIPType) ==
  LET s4 == GetIPv4Set(entry)
      s6 == GetIPv6Set(entry)
  IN [err |-> "none",
      prefixes |-> (IF s4.err THEN <<>> ELSE s4.prefixes)
                   \o (IF s6.err THEN <<>> ELSE s6.prefixes)]

\* The switch of addEntryToWriter: the prefixes to insert, or the error.
collectPrefixes(entry, onlyIPType) ==
  LET s4 == GetIPv4Set(entry)
      s6 == GetIPv6Set(entry)
  IN CASE onlyIPType = "ipv4" ->
            IF s4.err THEN [err |-> "v4set", prefixes |-> <<>>]
            ELSE [err |-> "none", prefixes |-> s4.prefixes]
       [] onlyIPType = "ipv6" ->
            IF s6.err THEN [err |-> "v6set", prefixes |-> <<>>]
            ELSE [err |-> "none", prefixes |-> s6.prefixes]
       [] OTHER ->
            [err |-> "none",
             prefixes |-> (IF s4.err THEN <<>> ELSE s4.prefixes)
                          \o (IF s6.err THEN <<>> ELSE s6.prefixes)]

\* The insertion loop of addEntryToWriter. failAt is the index of the prefix
\* whose Insert the library rejects (0: none). The result carries the writer
\* and the insertions made so far.
RECURSIVE insertAll(_, _, _, _, _, _)
insertAll(writer, prefixes, i, rec, failAt, done) ==
  IF i > Len(prefixes)
    THEN [err |-> "none", fam |-> 0, writer |-> writer, ins |-> done]
  ELSE IF i = failAt \/ ~Representable(writer.ipVersion, prefixes[i])
    THEN [err |-> "insert", fam |-> prefixes[i].fam, writer |-> writer, ins |-> done]
  ELSE insertAll([writer EXCEPT !.leaves =
                     TreeInsert(@, TreePath(writer.ipVersion, prefixes[i]), rec)],
                 prefixes, i + 1, rec, failAt,
                 Append(done, [path |-> TreePath(writer.ipVersion, prefixes[i]),
                               fam |-> prefixes[i].fam, rec |-> rec]))

addEntryToWriter(writer, entry, countryCode, onlyIPType, failAt) ==
  LET c == collectPrefixes(entry, onlyIPType)
  IN IF c.err # "none"
       THEN [err |-> c.err, fam |-> 0, writer |-> writer, ins |-> <<>>]
       ELSE insertAll(writer, c.prefixes, 1, countryRecord(countryCode), failAt, <<>>)

\* The file name without the lowercasing.
perListFilenameAsIs(name) == name \o <<46, 109, 109, 100, 98>>

\* strings.ToLower(name) + ".mmdb"
perListFilename(name) == ToLower(name) \o <<46, 109, 109, 100, 98>>

\* "Country.mmdb"
defaultMMDBOutputName == <<67, 111, 117, 110, 116, 114, 121, 46, 109, 109, 100, 98>>

\* ----------------------------------------------------------------- state
VARIABLES
  Want,            \* m.Want
  Exclude,         \* m.Exclude
  OneFilePerList,  \* m.OneFilePerList
  OnlyIPType,      \* m.OnlyIPType
  container,       \* lib.Container: label -> entry
  pc,              \* position in Output
  list,            \* the list filterAndSortList returned
  idx,             \* index of the range loop over list
  writer,          \* the mmdbwriter.Tree being built
  inserted,        \* the Insert calls that succeeded on writer, in order
  files,           \* the output directory: file name -> content
  result,          \* what Output returned
  envFault         \* whether a call into the OS or the tree writer has failed

vars == <<Want, Exclude, OneFilePerList, OnlyIPType, container, pc, list, idx,
          writer, inserted, files, result, envFault>>

config == <<Want, Exclude, OneFilePerList, OnlyIPType, container>>

\* Labels of the container (upper case, as the container stores them).
LabelA == <<65>>
LabelAB == <<65, 66>>
LabelB == <<66>>
Labels == {LabelA, LabelAB, LabelB}

\* Raw configuration strings: "A", " a", "ab", "B ", " ", "".
RawStrings == {<<65>>, <<32, 97>>, <<97, 98>>, <<66, 32>>, <<32>>, <<>>}

\* Raw strings of the conversion runs: "A", "ab", "b ".
RunStrings == {<<65>>, <<97, 98>>, <<98, 32>>}

Entries ==
  { [has4 |-> TRUE,  v4 |-> << <<0>> >>,            has6 |-> TRUE,  v6 |-> << <<1, 0>> >>],
    [has4 |-> TRUE,  v4 |-> << <<0, 0>> >>,         has6 |-> FALSE, v6 |-> <<>>],
    [has4 |-> FALSE, v4 |-> <<>>,                   has6 |-> TRUE,  v6 |-> << <<1>> >>],
    [has4 |-> TRUE,  v4 |-> << <<0, 1>>, <<1, 0>> >>, has6 |-> TRUE,  v6 |-> << <<1, 1>> >>] }

Containers == UNION {[D -> Entries] : D \in SUBSET Labels}

NoResult == [kind |-> "none", label |-> <<>>, fam |-> 0]
Success == [kind |-> "ok", label |-> <<>>, fam |-> 0]
Failure(kind, label, fam) == [kind |-> kind, label |-> label, fam |-> fam]

NoWriter == [ipVersion |-> 0, leaves |-> {}]

Init ==
  /\ Want \in BoundedSeq(RunStrings, MaxWant)
  /\ Exclude \in BoundedSeq({<<97>>}, MaxExclude)
  /\ OneFilePerList \in BOOLEAN
  /\ OnlyIPType \in {"", "ipv4", "ipv6"}
  /\ container \in Containers
  /\ pc = "start"
  /\ list = <<>>
  /\ idx = 0
  /\ writer = NoWriter
  /\ inserted = <<>>
  /\ files = <<>>
  /\ result = NoResult
  /\ envFault = FALSE

\* os.Create leaves an empty file; WriteTo fills it.
Created == [complete |-> FALSE, ipVersion |-> 0, leaves |-> {}]
Written(w) == [complete |-> TRUE, ipVersion |-> w.ipVersion, leaves |-> w.leaves]

Return(r) == pc' = "done" /\ result' = r

\* Output: os.MkdirAll fails.
MkdirFail ==
  /\ pc = "start"
  /\ Return(Failure("mkdir", <<>>, 0))
  /\ envFault' = TRUE
  /\ UNCHANGED <<config, list, idx, writer, inserted, files>>

\* Output up to the first loop iteration of outputSingleFile /
\* outputOneFilePerList.
OutputBegin ==
  /\ pc = "start"
  /\ list' = filterAndSortList(Want, Exclude, ContainerNames(container))
  /\ idx' = 1
  /\ IF OneFilePerList
       THEN pc' = "perlist" /\ writer' = writer
       ELSE pc' = "single" /\ writer' = createWriter(OnlyIPType)
  /\ UNCHANGED <<config, inserted, files, result, envFault>>

\* The iteration returning an error for an entry that is not found.
SingleSkipAborts ==
  /\ pc = "single" /\ idx <= Len(list)
  /\ ~GetEntry(container, list[idx]).found
  /\ Return(Failure("notfound", list[idx], 0))
  /\ UNCHANGED <<config, list, idx, writer, inserted, files, envFault>>

\* outputSingleFile: an iteration whose entry is not found.
SingleSkip ==
  /\ pc = "single" /\ idx <= Len(list)
  /\ ~GetEntry(container, list[idx]).found
  /\ idx' = idx + 1
  /\ UNCHANGED <<config, pc, list, writer, inserted, files, result, envFault>>

\* outputSingleFile: an iteration that adds an entry.
SingleAdd ==
  /\ pc = "single" /\ idx <= Len(list)
  /\ GetEntry(container, list[idx]).found
  /\ LET name == list[idx]
         entry == container[name]
     IN \E failAt \in 0..Len(collectPrefixes(entry, OnlyIPType).prefixes) :
          LET r == addEntryToWriter(writer, entry, name, OnlyIPType, failAt)
          IN /\ writer' = r.writer
             /\ inserted' = inserted \o r.ins
             /\ envFault' = (envFault \/ failAt # 0)
             /\ IF r.err # "none"
                  THEN Return(Failure(r.err, name, r.fam)) /\ idx' = idx
                  ELSE idx' = idx + 1 /\ UNCHANGED <<pc, result>>
  /\ UNCHANGED <<config, list, files>>

\* outputSingleFile after the loop: os.Create, writer.WriteTo.
SingleWrite ==
  /\ pc = "single" /\ idx > Len(list)
  /\ \E createOk, writeOk \in BOOLEAN :
       IF ~createOk
         THEN Return(Failure("create", <<>>, 0)) /\ files' = files /\ envFault' = TRUE
       ELSE IF ~writeOk
         THEN /\ Return(Failure("write", <<>>, 0))
              /\ files' = (defaultMMDBOutputName :> Created) @@ files
              /\ envFault' = TRUE
       ELSE /\ Return(Success)
            /\ files' = (defaultMMDBOutputName :> Written(writer)) @@ files
            /\ envFault' = envFault
  /\ UNCHANGED <<config, list, idx, writer, inserted>>

\* outputOneFilePerList: an iteration whose entry is not found.
PerListSkip ==
  /\ pc = "perlist" /\ idx <= Len(list)
  /\ ~GetEntry(container, list[idx]).found
  /\ idx' = idx + 1
  /\ UNCHANGED <<config, pc, list, writer, inserted, files, result, envFault>>

\* outputOneFilePerList: an iteration that builds and writes one file.
PerListBuild ==
  /\ pc = "perlist" /\ idx <= Len(list)
  /\ GetEntry(container, list[idx]).found
  /\ LET name == list[idx]
         entry == container[name]
         filename == perListFilename(name)
     IN \E failAt \in 0..Len(collectPrefixes(entry, OnlyIPType).prefixes),
           createOk, writeOk \in BOOLEAN :
          LET r == addEntryToWriter(createWriter(OnlyIPType), entry, name, OnlyIPType, failAt)
          IN /\ writer' = r.writer
             /\ inserted' = r.ins
             /\ IF r.err # "none"
                  THEN /\ Return(Failure(r.err, name, r.fam))
                       /\ envFault' = (envFault \/ failAt # 0)
                       /\ UNCHANGED <<idx, files>>
                ELSE IF ~createOk
                  THEN /\ Return(Failure("create", name, 0))
                       /\ envFault' = TRUE
                       /\ UNCHANGED <<idx, files>>
                ELSE IF ~writeOk
                  THEN /\ Return(Failure("write", name, 0))
                       /\ files' = (filename :> Created) @@ files
                       /\ envFault' = TRUE
                       /\ idx' = idx
                ELSE /\ files' = (filename :> Written(r.writer)) @@ files
                     /\ idx' = idx + 1
                     /\ UNCHANGED <<pc, result, envFault>>
  /\ UNCHANGED <<config, list>>

\* outputOneFilePerList after the loop.
PerListReturn ==
  /\ pc = "perlist" /\ idx > Len(list)
  /\ Return(Success)
  /\ UNCHANGED <<config, list, idx, writer, inserted, files, envFault>>

Next ==
  \/ MkdirFail
  \/ OutputBegin
  \/ SingleSkip
  \/ SingleAdd
  \/ SingleWrite
  \/ PerListSkip
  \/ PerListBuild
  \/ PerListReturn

Spec == Init /\ [][Next]_vars

\* ------------------------------------------------- the selector on its own
SelInit ==
  /\ Want \in BoundedSeq(RawStrings, MaxWant)
  /\ Exclude \in BoundedSeq(RawStrings, MaxExclude)
  /\ OneFilePerList = FALSE
  /\ OnlyIPType = ""
  /\ container \in UNION {[D -> {CHOOSE e \in Entries : TRUE}] : D \in SUBSET Labels}
  /\ pc = "select"
  /\ list = <<>>
  /\ idx = 0
  /\ writer = NoWriter
  /\ inserted = <<>>
  /\ files = <<>>
  /\ result = NoResult
  /\ envFault = FALSE

\* m.filterAndSortList(container)
Select ==
  /\ pc = "select"
  /\ list' = filterAndSortList(Want, Exclude, ContainerNames(container))
  /\ pc' = "selected"
  /\ UNCHANGED <<config, idx, writer, inserted, files, result, envFault>>

SelNext == Select

SelSpec == SelInit /\ [][SelNext]_vars

\* --------------------------------------------------------------- claims
\* What the configuration asks for, stated on the inputs alone.
NormWant == {Normalize(Want[i]) : i \in 1..Len(Want)} \ {<<>>}
NormExclude == {Normalize(Exclude[i]) : i \in 1..Len(Exclude)} \ {<<>>}

Selected == Range(list)
Present == {l \in Selected : l \in DOMAIN container}
Missing == {l \in Selected : l \notin DOMAIN container}

\* The prefixes of a label that the configured IP scope lets through.
ScopedPrefixes(l) ==
  LET e == container[l]
  IN {[fam |-> 4, bits |-> e.v4[i]] : i \in {j \in 1..Len(e.v4) : e.has4 /\ OnlyIPType # "ipv6"}}
     \cup
     {[fam |-> 6, bits |-> e.v6[i]] : i \in {j \in 1..Len(e.v6) : e.has6 /\ OnlyIPType # "ipv4"}}

ScopeVersion == IF OnlyIPType = "ipv4" THEN 4 ELSE 6

\* The tree paths a label covers in the output of this run.
ScopedPaths(l) == {TreePath(ScopeVersion, p) : p \in ScopedPrefixes(l)}

Covers(l, addr) == \E q \in ScopedPaths(l) : IsPrefixOf(q, addr)

\* Whether the sets the IP scope asks of a label can be returned.
SetsAvailable(l) ==
  /\ OnlyIPType = "ipv4" => container[l].has4
  /\ OnlyIPType = "ipv6" => container[l].has6

Aggregate == ~OneFilePerList /\ pc \in {"single", "done"}
AggregateDone == ~OneFilePerList /\ pc = "done" /\ result.kind = "ok"
PerListDone == OneFilePerList /\ pc = "done" /\ result.kind = "ok"

\* C1: when the want list has an entry that is non-empty after normalization,
\* the labels returned are exactly (normalized want) minus (normalized
\* exclude), also when that difference is empty.
C1_WantMinusExclude ==
  (pc = "selected" /\ NormWant # {}) => Selected = NormWant \ NormExclude

\* C2: the returned list is strictly ascending: sorted, and no label twice.
C2_SortedDeduplicated ==
  pc = "selected" => \A i \in 1..(Len(list) - 1) : StrLess(list[i], list[i + 1])

\* C3: in per-label mode Output does not return success when a label of the
\* list is absent from the container.
C3_PerListMissingAborts ==
  (OneFilePerList /\ pc = "done" /\ Missing # {}) => result.kind # "ok"

\* C4: in aggregate mode an absent label is skipped: no error is about an
\* absent label, a run in which no call fails and every set asked for is
\* available returns success, and a successful run has written exactly the
\* one file outputName, holding the tree into which the prefixes of every
\* present selected label, and nothing else, were inserted.
C4_AggregateSkipsMissing ==
  /\ (~OneFilePerList /\ pc = "done") =>
       /\ result.label \in (DOMAIN container) \cup {<<>>}
       /\ (~envFault /\ \A l \in Present : SetsAvailable(l)) => result.kind = "ok"
  /\ AggregateDone =>
       /\ DOMAIN files = {defaultMMDBOutputName}
       /\ files[defaultMMDBOutputName] = Written(writer)
       /\ \A l \in Present :
            {x.path : x \in {y \in Range(inserted) : y.rec = countryRecord(l)}} = ScopedPaths(l)
       /\ \A x \in Range(inserted) : \E l \in Present : x.rec = countryRecord(l)

C4_Witness ==
  /\ AggregateDone
  /\ Missing # {}
  /\ \E l \in Present : ScopedPaths(l) # {}

\* The record of the last insertion whose prefix contains the address.
LastContaining(log, addr) ==
  LET hits == {i \in 1..Len(log) : IsPrefixOf(log[i].path, addr)}
  IN IF hits = {} THEN NoMatch
     ELSE log[CHOOSE i \in hits : \A j \in hits : j <= i].rec

\* C5: in an aggregate build the labels are inserted in ascending order and
\* every address resolves to the record of the last inserted prefix that
\* contains it.
C5_OverlapPrecedence ==
  Aggregate =>
    /\ \A i, j \in 1..Len(inserted) :
         i < j => StrLeq(inserted[i].rec.country, inserted[j].rec.country)
    /\ \A addr \in Addresses(writer.ipVersion) :
         TreeLookup(writer.leaves, addr) = LastContaining(inserted, addr)

\* A later prefix strictly inside an earlier one of another label, and a later
\* prefix containing an earlier one, in one finished build.
C5_Witness ==
  /\ AggregateDone
  /\ \E i, j \in 1..Len(inserted) :
       /\ i < j /\ inserted[i].rec # inserted[j].rec
       /\ IsPrefixOf(inserted[i].path, inserted[j].path)
       /\ inserted[i].path # inserted[j].path
  /\ \E i, j \in 1..Len(inserted) :
       /\ i < j /\ inserted[i].rec # inserted[j].rec
       /\ IsPrefixOf(inserted[j].path, inserted[i].path)

PairwiseDisjoint ==
  \A l1, l2 \in Present :
    l1 # l2 => \A q1 \in ScopedPaths(l1), q2 \in ScopedPaths(l2) :
                 ~IsPrefixOf(q1, q2) /\ ~IsPrefixOf(q2, q1)

C7_IPScopeFiltering ==
  /\ OnlyIPType = "ipv4" =>
       /\ \A x \in Range(inserted) : x.fam = 4
       /\ result.kind # "v6set" /\ ~(result.kind = "insert" /\ result.fam = 6)
       /\ (pc = "done" /\ ~envFault /\ \A l \in Present : container[l].has4)
            => result.kind = "ok"
  /\ OnlyIPType = "ipv6" =>
       /\ \A x \in Range(inserted) : x.fam = 6
       /\ result.kind # "v4set" /\ ~(result.kind = "insert" /\ result.fam = 4)
       /\ (pc = "done" /\ ~envFault /\ \A l \in Present : container[l].has6)
            => result.kind = "ok"

C7_Witness ==
  /\ OnlyIPType = "ipv4" /\ pc = "done" /\ result.kind = "ok"
  /\ inserted # <<>>
  /\ \E l \in Present : container[l].has6 /\ container[l].v6 # <<>>

\* C8: a successful per-label run over n labels that all exist leaves exactly
\* n files, one per label, named by the lowercased label, each holding only
\* that label's prefixes.
C8_PerListFiles ==
  (PerListDone /\ Missing = {}) =>
    /\ DOMAIN files = {ToLower(l) \o <<46, 109, 109, 100, 98>> : l \in Selected}
    /\ Cardinality(DOMAIN files) = Cardinality(Selected)
    /\ \A l \in Selected :
         LET f == files[ToLower(l) \o <<46, 109, 109, 100, 98>>]
         IN /\ f.complete
            /\ \A leaf \in f.leaves : leaf.rec = countryRecord(l)
            /\ \A addr \in Addresses(ScopeVersion) :
                 (TreeLookup(f.leaves, addr) = countryRecord(l)) <=> Covers(l, addr)

C8_Witness ==
  /\ PerListDone /\ Missing = {}
  /\ Cardinality(Selected) >= 2
  /\ \E l1, l2 \in Selected : l1 # l2 /\ ScopedPaths(l1) # {} /\ ScopedPaths(l2) # {}

\* C9: in per-label mode a file is on disk only if its whole build and write
\* succeeded.
C9_NoPartialFile ==
  OneFilePerList => \A f \in DOMAIN files : files[f].complete

\* C10: a run that returns success has swallowed no error other than a label
\* not found in aggregate mode: every set the IP scope asks of a present
\* label was returned, and in per-label mode every label was found.
C10_ErrorsPropagate ==
  (pc = "done" /\ result.kind = "ok") =>
    /\ \A l \in Present :
         /\ OnlyIPType # "ipv6" => container[l].has4
         /\ OnlyIPType # "ipv4" => container[l].has6
    /\ OneFilePerList => Missing = {}

====
